---- MODULE Spec2Model ----
(***************************************************************************)
(* A model of the event-listener crate: the metadata model                 *)
(* (metadata/metadata_type.rs), the storage hashing it caches              *)
(* (metadata/metadata_utils.rs), the RPC layer (rpc/rpc.rs) and the online *)
(* client (client/online_client.rs).                                       *)
(*                                                                         *)
(* Values.  Option<T> is a sequence of length at most one, Result<T, E> a  *)
(* tagged pair.  A HashMap is a function with a finite domain.             *)
(***************************************************************************)
EXTENDS Integers, Sequences, FiniteSets, TLC

None == <<>>
Some(x) == <<x>>
IsSome(o) == o # <<>>
Unwrap(o) == o[1]

Ok(v) == <<"Ok", v>>
Err(e) == <<"Err", e>>
IsOk(r) == r[1] = "Ok"
IsErr(r) == r[1] = "Err"

EmptyMap == [k \in {} |-> None]
\* HashMap::insert: the new value replaces an older one under the same key.
MapInsert(m, k, v) == [x \in DOMAIN m \cup {k} |-> IF x = k THEN v ELSE m[x]]

(***************************************************************************)
(* Bounds of the model.                                                    *)
(***************************************************************************)
\* pallets in one metadata
MaxPallets == 2
\* raw events in one block
MaxEvents == 2
\* blocks one events subscription delivers
MaxBlocks == 2
\* the threads that share one Metadata, and the calls they make in all
NThreads == 2
MaxCalls == 3
\* the runtime generations of a node, and the readers of a client
MaxGen == 2
NReaders == 2
\* the subscriptions of a client, and the headers one of them receives
NSubs == 3
MaxHeaders == 1
\* the type ids of a registry whose types are hashed, and the depth to which
\* a type is wrapped in sequences
MaxTypes == 2
MaxDepth == 3

(***************************************************************************)
(* frame_metadata: the prefix and the version of a RuntimeMetadataPrefixed *)
(***************************************************************************)
\* frame_metadata::META_RESERVED, 0x6174656d ("meta")
META_RESERVED == 1635018093
\* RuntimeMetadata::V14
V14 == 14
Prefixes == {META_RESERVED, META_RESERVED + 1}
Versions == {13, V14, 15}

(***************************************************************************)
(* scale_info: a portable type registry.  A type is its TypeDef; ids are   *)
(* positions in the registry.                                              *)
(***************************************************************************)
Field(name, ty) == [name |-> name, ty |-> ty]
Variant(name, index, fields, docs) ==
    [name |-> name, index |-> index, fields |-> fields, docs |-> docs]

TyComposite(fields) == [kind |-> "Composite", fields |-> fields]
TyVariant(variants) == [kind |-> "Variant", variants |-> variants]
TySequence(param) == [kind |-> "Sequence", param |-> param]
TyArray(len, param) == [kind |-> "Array", len |-> len, param |-> param]
\* TypeDefTuple { fields: Vec<T::Type> }: a list of type ids, kept under a
\* name of its own because a composite's fields are records
TyTuple(fields) == [kind |-> "Tuple", types |-> fields]
TyPrimitive(prim) == [kind |-> "Primitive", prim |-> prim]
TyCompact(param) == [kind |-> "Compact", param |-> param]
TyBitSequence(order, store) == [kind |-> "BitSequence", order |-> order, store |-> store]

\* scale_info::TypeDefPrimitive discriminants
PrimU8 == 3
PrimU32 == 5

\* PortableRegistry::resolve
resolve(types, id) == IF id \in DOMAIN types THEN Some(types[id]) ELSE None

(***************************************************************************)
(* The registry the metadata of the model share.  Type ids 0..5 resolve,   *)
(* every other id is missing from the registry.                            *)
(***************************************************************************)
SystemEvent ==
    TyVariant(<< Variant("ExtrinsicSuccess", 0,
                         << Field(Some("dispatch_info"), 0) >>, << "ok" >>),
                 Variant("NewAccount", 2,
                         << Field(None, 3), Field(Some("nonce"), 0) >>, << >>) >>)
\* two variants share index 1
BalancesEvent ==
    TyVariant(<< Variant("Transfer", 1,
                         << Field(Some("from"), 3), Field(Some("to"), 3),
                            Field(Some("amount"), 0) >>, << >>),
                 Variant("Deposit", 1,
                         << Field(Some("who"), 3) >>, << "dep" >>) >>)
Registry ==
    0 :> TyPrimitive(PrimU32) @@
    1 :> SystemEvent @@
    2 :> BalancesEvent @@
    3 :> TyComposite(<< Field(None, 4) >>) @@
    4 :> TyArray(32, 5) @@
    5 :> TyPrimitive(PrimU8)

(***************************************************************************)
(* frame_metadata: pallets and their storage.                              *)
(***************************************************************************)
StorageEntry(name, modifier, ty, default) ==
    [name |-> name, modifier |-> modifier, ty |-> ty, default |-> default]
Plain(ty) == [kind |-> "Plain", ty |-> ty]
StorageMap(hashers, key, value) ==
    [kind |-> "Map", hashers |-> hashers, key |-> key, value |-> value]
\* StorageEntryModifier discriminants
Optional == 0
Default == 1
\* StorageHasher discriminants
Blake2_128Concat == 2
Twox64Concat == 5

Pallet(name, index, storage, event) ==
    [name |-> name, index |-> index, storage |-> storage, event |-> event]

\* "Account" is the entry of load_metadata(); "Events" has a type id that is
\* missing from the registry.
SystemStorage ==
    Some([prefix |-> "System",
          entries |-> << StorageEntry("Account", Optional, Plain(0), << 0 >>),
                         StorageEntry("Events", Default, Plain(9), << >>) >>])
BalancesStorage ==
    Some([prefix |-> "Balances",
          entries |-> << StorageEntry("TotalIssuance", Default,
                                      StorageMap(<< Blake2_128Concat >>, 3, 0),
                                      << 0, 0 >>) >>])
StorageOf(name) ==
    CASE name = "System" -> SystemStorage
      [] name = "Balances" -> BalancesStorage
      [] OTHER -> None

PalletNames == {"System", "Balances"}
PalletIndexes == {0, 1}
\* the event type of a pallet: none, a variant type (1, 2), a type that is no
\* variant (0), an id missing from the registry (7)
EventTypes == {None, Some(1), Some(2), Some(0), Some(7)}
Pallets ==
    { Pallet(n, i, StorageOf(n), e) : n \in PalletNames, i \in PalletIndexes,
                                      e \in EventTypes }

RECURSIVE SeqsUpTo(_, _)
SeqsUpTo(S, n) ==
    IF n = 0 THEN { << >> }
    ELSE LET shorter == SeqsUpTo(S, n - 1)
         IN  shorter \cup { Append(s, x) : s \in shorter, x \in S }

RuntimeMetadataV14(pallets, types) == [pallets |-> pallets, types |-> types]
RuntimeMetadataPrefixed(prefix, version, payload) ==
    [prefix |-> prefix, version |-> version, payload |-> payload]
PrefixedMetadatas ==
    { RuntimeMetadataPrefixed(p, v, RuntimeMetadataV14(ps, Registry)) :
        p \in Prefixes, v \in Versions, ps \in SeqsUpTo(Pallets, MaxPallets) }

(***************************************************************************)
(* metadata_type.rs: errors, EventMetadata, Metadata.                      *)
(***************************************************************************)
PalletNotFound == << "PalletNotFound" >>
StorageNotFound == << "StorageNotFound" >>
EventNotFound(pallet_index, event_index) ==
    << "EventNotFound", pallet_index, event_index >>
InvalidPrefix == << "InvalidPrefix" >>
InvalidVersion == << "InvalidVersion" >>
MissingType(id) == << "MissingType", id >>
TypeDefNotVariant(id) == << "TypeDefNotVariant", id >>

EventMetadata(pallet, event, fields, docs) ==
    [pallet |-> pallet, event |-> event, fields |-> fields, docs |-> docs]

\* the closure get_type_def_variant of try_from
get_type_def_variant(types, type_id) ==
    LET ty == resolve(types, type_id)
    IN  IF ty = None THEN Err(MissingType(type_id))
        ELSE IF Unwrap(ty).kind = "Variant" THEN Ok(Unwrap(ty))
        ELSE Err(TypeDefNotVariant(type_id))

\* variant.fields().iter().map(|f| (f.name(), f.ty().id())).collect()
FieldPairs(fields) == [i \in 1..Len(fields) |-> << fields[i].name, fields[i].ty >>]

\* insert_variants with the first value under a key kept
\* (events.entry(key).or_insert(..) for events.insert(key, ..))
RECURSIVE insert_variants_keep_first(_, _, _, _)
insert_variants_keep_first(events, pallet, variants, i) ==
    IF i > Len(variants) THEN events
    ELSE insert_variants_keep_first(
             IF << pallet.index, variants[i].index >> \in DOMAIN events
             THEN events
             ELSE MapInsert(events, << pallet.index, variants[i].index >>,
                            EventMetadata(pallet.name, variants[i].name,
                                          FieldPairs(variants[i].fields),
                                          variants[i].docs)),
             pallet, variants, i + 1)

\* the inner loop of try_from: one events.insert per variant, in order
RECURSIVE insert_variants(_, _, _, _)
insert_variants(events, pallet, variants, i) ==
    IF i > Len(variants) THEN events
    ELSE insert_variants(
             MapInsert(events, << pallet.index, variants[i].index >>,
                       EventMetadata(pallet.name, variants[i].name,
                                     FieldPairs(variants[i].fields),
                                     variants[i].docs)),
             pallet, variants, i + 1)

\* index_pallets with a pallet whose event type does not resolve to a variant
\* skipped (continue for ?)
RECURSIVE index_pallets_skip(_, _, _, _)
index_pallets_skip(types, pallets, i, events) ==
    IF i > Len(pallets) THEN Ok(events)
    ELSE IF pallets[i].event = None
         THEN index_pallets_skip(types, pallets, i + 1, events)
    ELSE LET var == get_type_def_variant(types, Unwrap(pallets[i].event))
         IN  IF IsErr(var) THEN index_pallets_skip(types, pallets, i + 1, events)
             ELSE index_pallets_skip(types, pallets, i + 1,
                      insert_variants(events, pallets[i], var[2].variants, 1))

\* the outer loop of try_from: the first pallet whose event type does not
\* resolve to a variant ends it with the error (the ? operator)
RECURSIVE index_pallets(_, _, _, _)
index_pallets(types, pallets, i, events) ==
    IF i > Len(pallets) THEN Ok(events)
    ELSE IF pallets[i].event = None
         THEN index_pallets(types, pallets, i + 1, events)
    ELSE LET var == get_type_def_variant(types, Unwrap(pallets[i].event))
         IN  IF IsErr(var) THEN var
             ELSE index_pallets(types, pallets, i + 1,
                      insert_variants(events, pallets[i], var[2].variants, 1))

\* try_from with the version matched before the prefix is compared
try_from_version_first(metadata) ==
    IF metadata.version # V14 THEN Err(InvalidVersion)
    ELSE IF metadata.prefix # META_RESERVED THEN Err(InvalidPrefix)
    ELSE LET events == index_pallets(metadata.payload.types,
                                     metadata.payload.pallets, 1, EmptyMap)
         IN  IF IsErr(events) THEN events
             ELSE Ok([metadata |-> metadata.payload, events |-> events[2],
                      cached_storage_hashes |-> EmptyMap])

\* impl TryFrom<RuntimeMetadataPrefixed> for Metadata
try_from(metadata) ==
    IF metadata.prefix # META_RESERVED THEN Err(InvalidPrefix)
    ELSE IF metadata.version # V14 THEN Err(InvalidVersion)
    ELSE LET events == index_pallets(metadata.payload.types,
                                     metadata.payload.pallets, 1, EmptyMap)
         IN  IF IsErr(events) THEN events
             ELSE Ok([metadata |-> metadata.payload, events |-> events[2],
                      cached_storage_hashes |-> EmptyMap])

\* Metadata::event with the indices of the error swapped
Metadata_event_swapped(self, pallet_index, event_index) ==
    IF << pallet_index, event_index >> \in DOMAIN self.events
    THEN Ok(self.events[<< pallet_index, event_index >>])
    ELSE Err(EventNotFound(event_index, pallet_index))

\* Metadata::event
Metadata_event(self, pallet_index, event_index) ==
    IF << pallet_index, event_index >> \in DOMAIN self.events
    THEN Ok(self.events[<< pallet_index, event_index >>])
    ELSE Err(EventNotFound(pallet_index, event_index))

(***************************************************************************)
(* metadata_utils.rs: hashing.  A 32-byte value is modelled as the set of  *)
(* the hash outputs whose XOR it is: the outputs of the base hash are      *)
(* taken to be independent (distinct inputs give outputs that neither      *)
(* collide nor cancel), so xor is the symmetric difference and the value   *)
(* of 32 zero bytes is the empty set.  A byte string is a name or a        *)
(* sequence of numbers.                                                    *)
(***************************************************************************)
as_bytes(name) == [s |-> name, n |-> << >>]
Bytes(n) == [s |-> "", n |-> n]

\* hash(bytes): sp_core::hashing::twox_256
hash(bytes) == { [b |-> bytes, l |-> {}, r |-> {}, raw |-> FALSE] }

\* the bytes [byte; 32] (of a hasher discriminant), which are no hash output
RawBytes32(byte) ==
    IF byte = 0 THEN {}
    ELSE { [b |-> Bytes(<< byte >>), l |-> {}, r |-> {}, raw |-> TRUE] }

xor(a, b) == (a \ b) \cup (b \ a)

\* hash_hashes(a, b): the hash of the 64 bytes a ++ b
hash_hashes(a, b) == { [b |-> Bytes(<< >>), l |-> a, r |-> b, raw |-> FALSE] }

\* enum TypeBeingHashed as u8
Composite == 0
VariantTag == 1
Sequence == 2
Array == 3
Tuple == 4
Primitive == 5
Compact == 6
BitSequence == 7

\* u32::to_be_bytes
to_be_bytes(len) ==
    << (len \div 16777216) % 256, (len \div 65536) % 256,
       (len \div 256) % 256, len % 256 >>

\* The state one top-level hash computation threads through its calls:
\* visited_ids, and whether an unwrap() of a missing type has panicked (the
\* computation then has no value).  Two histories are kept with it: the type
\* ids get_type_hash resolved and went into, in order, and the ids for which
\* it returned the fixed hash.
NewVisited == [visited |-> {}, panic |-> FALSE, entered |-> << >>, fixed |-> {}]

RECURSIVE get_type_hash(_, _, _)
RECURSIVE get_type_def_hash(_, _, _)

\* get_field_hash: << hash, visited_ids >>
get_field_hash(registry, field, visited_ids) ==
    LET ty == get_type_hash(registry, field.ty, visited_ids)
    IN  << IF field.name # None
           THEN xor(ty[1], hash(as_bytes(Unwrap(field.name))))
           ELSE ty[1],
           ty[2] >>

\* bytes = hash_hashes(bytes, get_field_hash(..)) for each field from i on
RECURSIVE hash_fields(_, _, _, _, _)
hash_fields(registry, fields, i, bytes, visited_ids) ==
    IF i > Len(fields) THEN << bytes, visited_ids >>
    ELSE LET f == get_field_hash(registry, fields[i], visited_ids)
         IN  hash_fields(registry, fields, i + 1, hash_hashes(bytes, f[1]), f[2])

\* get_variant_hash
get_variant_hash(registry, var, visited_ids) ==
    hash_fields(registry, var.fields, 1, hash(as_bytes(var.name)), visited_ids)

\* bytes = hash_hashes(bytes, get_variant_hash(..)) for each variant from i on
RECURSIVE hash_variants(_, _, _, _, _)
hash_variants(registry, variants, i, bytes, visited_ids) ==
    IF i > Len(variants) THEN << bytes, visited_ids >>
    ELSE LET v == get_variant_hash(registry, variants[i], visited_ids)
         IN  hash_variants(registry, variants, i + 1, hash_hashes(bytes, v[1]), v[2])

\* bytes = hash_hashes(bytes, get_type_hash(..)) for each tuple member from i on
RECURSIVE hash_tuple(_, _, _, _, _)
hash_tuple(registry, ids, i, bytes, visited_ids) ==
    IF i > Len(ids) THEN << bytes, visited_ids >>
    ELSE LET t == get_type_hash(registry, ids[i], visited_ids)
         IN  hash_tuple(registry, ids, i + 1, hash_hashes(bytes, t[1]), t[2])

\* get_type_def_hash
get_type_def_hash(registry, ty_def, visited_ids) ==
    CASE ty_def.kind = "Composite" ->
            hash_fields(registry, ty_def.fields, 1,
                        hash(Bytes(<< Composite >>)), visited_ids)
      [] ty_def.kind = "Variant" ->
            hash_variants(registry, ty_def.variants, 1,
                          hash(Bytes(<< VariantTag >>)), visited_ids)
      [] ty_def.kind = "Sequence" ->
            LET t == get_type_hash(registry, ty_def.param, visited_ids)
            IN  << xor(hash(Bytes(<< Sequence >>)), t[1]), t[2] >>
      [] ty_def.kind = "Array" ->
            LET t == get_type_hash(registry, ty_def.param, visited_ids)
            IN  << xor(hash(Bytes(<< Array >> \o to_be_bytes(ty_def.len))), t[1]),
                   t[2] >>
      [] ty_def.kind = "Tuple" ->
            hash_tuple(registry, ty_def.types, 1,
                       hash(Bytes(<< Tuple >>)), visited_ids)
      [] ty_def.kind = "Primitive" ->
            << hash(Bytes(<< Primitive, ty_def.prim >>)), visited_ids >>
      [] ty_def.kind = "Compact" ->
            LET t == get_type_hash(registry, ty_def.param, visited_ids)
            IN  << xor(hash(Bytes(<< Compact >>)), t[1]), t[2] >>
      [] ty_def.kind = "BitSequence" ->
            LET o == get_type_hash(registry, ty_def.order, visited_ids)
                st == get_type_hash(registry, ty_def.store, o[2])
            IN  << xor(xor(hash(Bytes(<< BitSequence >>)), o[1]), st[1]), st[2] >>

\* get_type_hash: a type id seen before in this computation hashes to the
\* fixed hash(&[123]); resolve(id).unwrap() panics on an id that the registry
\* does not hold
\* get_type_hash with the visited ids handed down by value: what a callee
\* visited is forgotten when it returns
get_type_hash_by_value(registry, id, visited_ids) ==
    IF visited_ids.panic THEN << {}, visited_ids >>
    ELSE IF id \in visited_ids.visited
    THEN << hash(Bytes(<< 123 >>)), [visited_ids EXCEPT !.fixed = @ \cup {id}] >>
    ELSE IF resolve(registry, id) = None
    THEN << {}, [visited_ids EXCEPT !.visited = @ \cup {id}, !.panic = TRUE] >>
    ELSE LET r == get_type_def_hash(registry, Unwrap(resolve(registry, id)),
                                    [visited_ids EXCEPT !.visited = @ \cup {id},
                                                        !.entered = Append(@, id)])
         IN  << r[1], [r[2] EXCEPT !.visited = visited_ids.visited \cup {id}] >>
get_type_hash(registry, id, visited_ids) ==
    IF visited_ids.panic THEN << {}, visited_ids >>
    ELSE IF id \in visited_ids.visited
    THEN << hash(Bytes(<< 123 >>)), [visited_ids EXCEPT !.fixed = @ \cup {id}] >>
    ELSE IF resolve(registry, id) = None
    THEN << {}, [visited_ids EXCEPT !.visited = @ \cup {id}, !.panic = TRUE] >>
    ELSE get_type_def_hash(registry, Unwrap(resolve(registry, id)),
                           [visited_ids EXCEPT !.visited = @ \cup {id},
                                               !.entered = Append(@, id)])

\* bytes = hash_hashes(bytes, [hasher as u8; 32]) for each hasher from i on
RECURSIVE hash_hashers(_, _, _)
hash_hashers(hashers, i, bytes) ==
    IF i > Len(hashers) THEN bytes
    ELSE hash_hashers(hashers, i + 1, hash_hashes(bytes, RawBytes32(hashers[i])))

\* get_storage_entry_hash: << hash, visited_ids >>
get_storage_entry_hash(registry, entry, visited_ids) ==
    LET named == xor(xor(hash(as_bytes(entry.name)),
                         hash(Bytes(<< entry.modifier >>))),
                     hash(Bytes(entry.default)))
    IN  IF entry.ty.kind = "Plain"
        THEN LET t == get_type_hash(registry, entry.ty.ty, visited_ids)
             IN  << xor(named, t[1]), t[2] >>
        ELSE LET hashed == hash_hashers(entry.ty.hashers, 1, named)
                 k == get_type_hash(registry, entry.ty.key, visited_ids)
                 v == get_type_hash(registry, entry.ty.value, k[2])
             IN  << xor(xor(hashed, k[1]), v[1]), v[2] >>

\* enum NotFound
NotFound_Pallet == << "Pallet" >>
NotFound_Item == << "Item" >>
\* a call that did not return: it panicked
Panic == << "Panic", << >> >>
IsPanic(r) == r[1] = "Panic"

\* iter().find(|x| x.name == name): the position of the first element of
\* that name, 0 for none
Find(seq, name) ==
    IF \E i \in 1..Len(seq) : seq[i].name = name
    THEN CHOOSE i \in 1..Len(seq) :
             seq[i].name = name /\ \A j \in 1..(i - 1) : seq[j].name # name
    ELSE 0

\* get_storage_hash
get_storage_hash(metadata, pallet_name, storage_name) ==
    LET pi == Find(metadata.pallets, pallet_name)
    IN  IF pi = 0 THEN Err(NotFound_Pallet)
        ELSE IF metadata.pallets[pi].storage = None THEN Err(NotFound_Item)
        ELSE LET entries == Unwrap(metadata.pallets[pi].storage).entries
                 ei == Find(entries, storage_name)
             IN  IF ei = 0 THEN Err(NotFound_Item)
                 ELSE LET h == get_storage_entry_hash(metadata.types, entries[ei],
                                                      NewVisited)
                      IN  IF h[2].panic THEN Panic ELSE Ok(h[1])

\* the closure storage_hash passes to get_or_insert, with the errors swapped
storage_hash_compute_swapped(self, pallet, storage) ==
    LET h == get_storage_hash(self.metadata, pallet, storage)
    IN  IF IsErr(h)
        THEN (IF h[2] = NotFound_Pallet THEN Err(StorageNotFound)
              ELSE Err(PalletNotFound))
        ELSE h

\* the closure storage_hash passes to get_or_insert:
\* get_storage_hash(..).map_err(..)
storage_hash_compute(self, pallet, storage) ==
    LET h == get_storage_hash(self.metadata, pallet, storage)
    IN  IF IsErr(h)
        THEN (IF h[2] = NotFound_Pallet THEN Err(PalletNotFound)
              ELSE Err(StorageNotFound))
        ELSE h

\* the key storage_hash passes to get_or_insert, with the item left out
storage_hash_key_pallet_only(pallet, storage) == << pallet, pallet >>

\* the key storage_hash passes to get_or_insert: (pallet, storage)
storage_hash_key(pallet, storage) == << pallet, storage >>

(***************************************************************************)
(* The events of one block, as the node sends them: each raw event names   *)
(* its pallet and its variant by index.                                    *)
(***************************************************************************)
VariantIndexes == {0, 1, 2}
RawEvent(pallet_index, variant_index) ==
    [pallet_index |-> pallet_index, variant_index |-> variant_index]
RawEvents == { RawEvent(p, v) : p \in PalletIndexes, v \in VariantIndexes }
Blocks == SeqsUpTo(RawEvents, MaxEvents)

\* what a decoded event gives its consumer: pallet_name() and variant_name()
EventDetails(ev) == [pallet_name |-> ev.pallet, variant_name |-> ev.event]

\* The metadata an events client is bound to in the model.
EventsPallets ==
    { << Pallet("System", 0, SystemStorage, Some(1)) >>,
      << Pallet("System", 0, SystemStorage, Some(1)),
         Pallet("Balances", 1, BalancesStorage, Some(2)) >>,
      << Pallet("Balances", 1, BalancesStorage, None) >> }
EventsMetadatas ==
    { try_from(RuntimeMetadataPrefixed(META_RESERVED, V14,
                   RuntimeMetadataV14(ps, Registry)))[2] : ps \in EventsPallets }

(***************************************************************************)
(* The Metadata whose storage hashes are cached in the model, and the      *)
(* calls made on it.  "Staking" is a pallet of neither metadata,           *)
(* "Timestamp" a pallet without storage.                                   *)
(***************************************************************************)
CachePallets ==
    { << Pallet("System", 0, SystemStorage, Some(1)),
         Pallet("Balances", 1, BalancesStorage, Some(2)),
         Pallet("Timestamp", 2, None, None) >>,
      << Pallet("Balances", 0, BalancesStorage, None) >> }
CacheMetadatas ==
    { try_from(RuntimeMetadataPrefixed(META_RESERVED, V14,
                   RuntimeMetadataV14(ps, Registry)))[2] : ps \in CachePallets }
CachePalletNames == {"System", "Staking", "Timestamp"}
CacheItems == {"Account", "Events"}

\* [0; 32]
ZeroHash == {}

\* A closure handed to get_or_insert: the one of storage_hash, which captures
\* (pallet, storage), or one that returns a fixed value, as the closure of the
\* test metadata_storage_inner_cache does.
StorageHashClosure(pallet, storage) ==
    [kind |-> "storage_hash", pallet |-> pallet, storage |-> storage,
     value |-> Ok(ZeroHash)]
FixedClosure(value) ==
    [kind |-> "fixed", pallet |-> "", storage |-> "", value |-> value]
FixedClosures == { FixedClosure(Ok(ZeroHash)) }

\* f(): what a closure yields when get_or_insert invokes it on self
CallClosure(self, f) ==
    IF f.kind = "storage_hash"
    THEN storage_hash_compute(self, f.pallet, f.storage)
    ELSE f.value

\* a thread that is in no call
NoCall ==
    [pc |-> "idle", kind |-> "", pallet |-> "", item |-> "", key |-> << "", "" >>,
     f |-> FixedClosure(Ok(ZeroHash)), val |-> Ok(ZeroHash), since |-> 0]
Threads == 1..NThreads

(***************************************************************************)
(* error.rs, rpc.rs, online_client.rs: the typed calls of Rpc and the      *)
(* construction of an OnlineClient.  The transport (RpcClient) is not      *)
(* among the sources: request() is modelled by its outcome, an error or    *)
(* the decoded response.                                                   *)
(***************************************************************************)
\* enum Error
Error_Codec == << "Codec" >>
Error_Rpc == << "Rpc", "connection closed" >>
Error_Serialization == << "Serialization" >>
Error_InvalidMetadata(e) == << "InvalidMetadata", e >>

\* struct RuntimeVersion
RuntimeVersion(spec_version, transaction_version, other) ==
    [spec_version |-> spec_version, transaction_version |-> transaction_version,
     other |-> other]

\* What the node of the model serves in its runtime generation g.
Generations == 1..MaxGen
NodeRuntimeVersion(g) == RuntimeVersion(g, 1, [specName |-> "node"])
NodeMetadata(g) ==
    RuntimeMetadataPrefixed(META_RESERVED, V14,
        RuntimeMetadataV14(<< Pallet("System", g, SystemStorage, Some(1)) >>,
                           Registry))

\* Bytes of a response: the SCALE encoding of a RuntimeMetadataPrefixed, or
\* bytes that do not decode
Encode(meta) == [valid |-> TRUE, meta |-> Some(meta)]
Garbage == [valid |-> FALSE, meta |-> None]
\* Decode::decode(&mut &bytes[..])
Decode(bytes) == IF bytes.valid THEN Ok(Unwrap(bytes.meta)) ELSE Err(Error_Codec)

\* the outcomes of request("state_getRuntimeVersion") and
\* request("state_getMetadata") on a node in generation 1
RuntimeVersionResponses ==
    { Err(Error_Rpc), Err(Error_Serialization), Ok(NodeRuntimeVersion(1)) }
MetadataResponses ==
    { Err(Error_Rpc), Ok(Garbage), Ok(Encode(NodeMetadata(1))),
      Ok(Encode(RuntimeMetadataPrefixed(META_RESERVED + 1, V14,
                                        NodeMetadata(1).payload))),
      Ok(Encode(RuntimeMetadataPrefixed(META_RESERVED, 13,
                                        NodeMetadata(1).payload))),
      Ok(Encode(RuntimeMetadataPrefixed(META_RESERVED, V14,
            RuntimeMetadataV14(<< Pallet("System", 0, SystemStorage, Some(7)) >>,
                               Registry)))) }

\* Rpc::metadata, given the outcome of the request
Rpc_metadata(response) ==
    IF IsErr(response) THEN response
    ELSE LET meta == Decode(response[2])
         IN  IF IsErr(meta) THEN meta
             ELSE LET metadata == try_from(meta[2])
                  IN  IF IsErr(metadata) THEN Err(Error_InvalidMetadata(metadata[2]))
                      ELSE metadata

\* Rpc::runtime_version, given the outcome of the request
Rpc_runtime_version(response) ==
    IF IsErr(response) THEN response ELSE Ok(response[2])

\* struct Inner
Inner(runtime_version, metadata) ==
    [runtime_version |-> runtime_version, metadata |-> metadata]

\* from_rpc_client with a metadata that failed to load left empty
from_rpc_client_empty_metadata(runtime_version, metadata) ==
    IF IsErr(runtime_version) THEN runtime_version
    ELSE IF IsErr(metadata)
    THEN Ok(Inner(runtime_version[2],
                  [metadata |-> RuntimeMetadataV14(<< >>, Registry),
                   events |-> EmptyMap, cached_storage_hashes |-> EmptyMap]))
    ELSE Ok(Inner(runtime_version[2], metadata[2]))

\* from_rpc_client with the ? on the metadata applied first
from_rpc_client_metadata_first(runtime_version, metadata) ==
    IF IsErr(metadata) THEN metadata
    ELSE IF IsErr(runtime_version) THEN runtime_version
    ELSE Ok(Inner(runtime_version[2], metadata[2]))

\* OnlineClient::from_rpc_client, given the two results of the join: the
\* Inner of the client, or the error
from_rpc_client(runtime_version, metadata) ==
    IF IsErr(runtime_version) THEN runtime_version
    ELSE IF IsErr(metadata) THEN metadata
    ELSE Ok(Inner(runtime_version[2], metadata[2]))

\* OnlineClient::metadata and OnlineClient::runtime_version: one read lock each
OnlineClient_metadata(inner) == inner.metadata
OnlineClient_runtime_version(inner) == inner.runtime_version

Readers == 1..NReaders
NoRead == [runtime_version |-> None, metadata |-> None]

(***************************************************************************)
(* rpc.rs: subscriptions.  Subscription and the transport are not among    *)
(* the sources; they follow the description of the RPC client.             *)
(***************************************************************************)
\* the subscribe method, the params and the unsubscribe method that
\* subscribe_blocks hands to subscribe, with the subscribe method as the
\* unsubscribe method
subscribe_blocks_same_method ==
    [sub |-> "chain_subscribeNewHeads", params |-> << >>,
     unsub |-> "chain_subscribeNewHeads"]

\* the subscribe method, the params and the unsubscribe method that
\* subscribe_blocks hands to subscribe
subscribe_blocks ==
    [sub |-> "chain_subscribeNewHeads", params |-> << >>,
     unsub |-> "chain_unsubscribeNewHeads"]

\* the node: the unsubscribe method that ends a subscription made by sub
UnsubscribeOf(sub) ==
    CASE sub = "chain_subscribeNewHeads" -> "chain_unsubscribeNewHeads"
      [] OTHER -> ""

Subs == 1..NSubs
NoSub == [state |-> "none", sub |-> "", unsub |-> "", headers |-> 0]

(***************************************************************************)
(* State.                                                                  *)
(***************************************************************************)
VARIABLES
    \* parsing: the RuntimeMetadataPrefixed handed to try_from, the result
    \* (None before the call), and the last Metadata::event call made on it
    mInput, mResult, mLookup,
    \* an events client: the Metadata it is bound to, the number of blocks
    \* received, the current block's raw events, the iterator's position, the
    \* items it yielded, and its consumer ("polling", or "panicked")
    eMetadata, eBlocks, eBlock, ePos, eYielded, eConsumer,
    \* a Metadata shared by threads (its cached_storage_hashes is the cache),
    \* each thread's call in progress, the calls that ended (in the order in
    \* which they ended), and per key the results its closures computed
    cMetadata, cCalls, cLog, cComputed,
    \* from_rpc_client: the results of its two fetches (None while pending), the
    \* order in which they completed, and its return value; the cell of the client it returned, the Inner values
    \* the cell has held, and what each reader got from its accessor calls
    kRuntimeVersion, kMetadata, kArrived, kClient, kInner, kInstalled, kReads,
    \* subscriptions: each handle, the subscriptions open at the node with the
    \* method that made them, and the unsubscribe calls not yet sent
    sSubs, sServer, sWire,
    \* hashing: a type registry and the type id whose hash is computed, the
    \* outcome of get_type_hash (None before the call); or a storage entry
    \* and the outcome of get_storage_entry_hash
    hRegistry, hId, hOut, hEntry, hEntryOut,
    \* a RuntimeVersion as JSON text, the result of deserializing it, and the
    \* text of serializing that value again
    jText, jValue, jOut

metaVars == << mInput, mResult, mLookup >>
eventsVars == << eMetadata, eBlocks, eBlock, ePos, eYielded, eConsumer >>
cacheVars == << cMetadata, cCalls, cLog, cComputed >>
clientVars ==
    << kRuntimeVersion, kMetadata, kArrived, kClient, kInner, kInstalled, kReads >>
subVars == << sSubs, sServer, sWire >>
hashVars == << hRegistry, hId, hOut, hEntry, hEntryOut >>
jsonVars == << jText, jValue, jOut >>
vars == << metaVars, eventsVars, cacheVars, clientVars, subVars, hashVars, jsonVars >>

MetaIdle == mInput = None /\ mResult = None /\ mLookup = None
\* from_rpc_client not yet called; no subscription made
ClientInit ==
    /\ kRuntimeVersion = None /\ kMetadata = None /\ kArrived = << >>
    /\ kClient = None
    /\ kInner = None /\ kInstalled = << >>
    /\ kReads = [r \in Readers |-> NoRead]
SubInit ==
    /\ sSubs = [s \in Subs |-> NoSub] /\ sServer = EmptyMap /\ sWire = {}
HashIdle ==
    /\ hRegistry = EmptyMap /\ hId = 0 /\ hOut = None /\ hEntry = None
    /\ hEntryOut = None
JsonIdle == jText = << >> /\ jValue = None /\ jOut = None
CacheIdle ==
    /\ cMetadata = None /\ cCalls = [t \in Threads |-> NoCall]
    /\ cLog = << >> /\ cComputed = EmptyMap
EventsIdle ==
    /\ eMetadata = None /\ eBlocks = 0 /\ eBlock = << >> /\ ePos = 0
    /\ eYielded = << >> /\ eConsumer = "polling"

(***************************************************************************)
(* Parsing a metadata and looking events up in it.                         *)
(***************************************************************************)
MetaInit ==
    /\ mInput \in { Some(m) : m \in PrefixedMetadatas }
    /\ mResult = None
    /\ mLookup = None

\* Metadata::try_from(prefixed)
TryFrom ==
    /\ mResult = None
    /\ mResult' = Some(try_from(Unwrap(mInput)))
    /\ UNCHANGED << mInput, mLookup, eventsVars, cacheVars, clientVars, subVars, hashVars, jsonVars >>

\* metadata.event(pallet_index, event_index) on a parsed Metadata
EventLookup(pallet_index, event_index) ==
    /\ mResult # None /\ IsOk(Unwrap(mResult))
    /\ mLookup' = Some(<< pallet_index, event_index,
                          Metadata_event(Unwrap(mResult)[2], pallet_index,
                                         event_index) >>)
    /\ UNCHANGED << mInput, mResult, eventsVars, cacheVars, clientVars, subVars, hashVars, jsonVars >>

MetaNext ==
    \/ TryFrom
    \/ \E p \in PalletIndexes, v \in VariantIndexes : EventLookup(p, v)

InitMeta == MetaInit /\ EventsIdle /\ CacheIdle /\ ClientInit /\ SubInit /\ HashIdle /\ JsonIdle
SpecMeta == InitMeta /\ [][MetaNext]_vars

(***************************************************************************)
(* Iterating the events of the blocks of a subscription.  The events       *)
(* module is not among the sources; the iterator follows the description   *)
(* of the Events facade: one item per raw event, each resolved with        *)
(* Metadata::event, an unresolved one yielded as an error item.            *)
(***************************************************************************)
EventsInit ==
    /\ eMetadata \in { Some(m) : m \in EventsMetadatas }
    /\ eBlocks = 0 /\ eBlock = << >> /\ ePos = 0 /\ eYielded = << >>
    /\ eConsumer = "polling"

\* event_sub.next(): the next block's events; events.iter() starts at its
\* first event
NextBlock(block) ==
    /\ eConsumer = "polling"
    /\ eBlocks < MaxBlocks
    /\ eBlocks' = eBlocks + 1
    /\ eBlock' = block
    /\ ePos' = 0
    /\ eYielded' = << >>
    /\ UNCHANGED << eMetadata, eConsumer, metaVars, cacheVars, clientVars, subVars, hashVars, jsonVars >>

\* the item the iterator yields for the raw event at its position
IterItem(metadata, raw) ==
    LET ev == Metadata_event(metadata, raw.pallet_index, raw.variant_index)
    IN  IF IsOk(ev) THEN Ok(EventDetails(ev[2])) ELSE ev

\* one next() of the iterator by a caller that handles error items
IterNext ==
    /\ eConsumer = "polling"
    /\ ePos < Len(eBlock)
    /\ eYielded' = Append(eYielded, IterItem(Unwrap(eMetadata), eBlock[ePos + 1]))
    /\ ePos' = ePos + 1
    /\ UNCHANGED << eMetadata, eBlocks, eBlock, eConsumer, metaVars, cacheVars, clientVars, subVars, hashVars, jsonVars >>

\* one turn of the loop of listen_event: event.unwrap() panics on an error
\* item
ListenEvent ==
    /\ eConsumer = "polling"
    /\ ePos < Len(eBlock)
    /\ LET item == IterItem(Unwrap(eMetadata), eBlock[ePos + 1])
       IN  /\ eYielded' = Append(eYielded, item)
           /\ eConsumer' = IF IsErr(item) THEN "panicked" ELSE eConsumer
    /\ ePos' = ePos + 1
    /\ UNCHANGED << eMetadata, eBlocks, eBlock, metaVars, cacheVars, clientVars, subVars, hashVars, jsonVars >>

EventsNext ==
    \/ \E b \in Blocks : NextBlock(b)
    \/ IterNext
    \/ ListenEvent

InitEvents == EventsInit /\ MetaIdle /\ CacheIdle /\ ClientInit /\ SubInit /\ HashIdle /\ JsonIdle
SpecEvents == InitEvents /\ [][EventsNext]_vars

(***************************************************************************)
(* The hash cache of a Metadata.  hash_cache.rs is not among the sources;  *)
(* get_or_insert follows the description of the Hash Cache: a read of the  *)
(* key, which returns what is stored (a hash or an error) without calling  *)
(* the closure; else the closure is called with no lock held, so that      *)
(* several threads may compute for one key; then the result is stored      *)
(* unless a result was stored meanwhile (a populated key keeps its value), *)
(* and returned.  A closure that panics ends its thread and stores         *)
(* nothing.                                                                *)
(***************************************************************************)
CacheInit ==
    /\ cMetadata \in { Some(m) : m \in CacheMetadatas }
    /\ cCalls = [t \in Threads |-> NoCall]
    /\ cLog = << >>
    /\ cComputed = EmptyMap

\* the calls made so far
Started == Len(cLog) + Cardinality({ t \in Threads : cCalls[t].pc \in {"lookup", "compute", "insert"} })
\* no call is in progress
Quiet == \A t \in Threads : cCalls[t].pc \in {"idle", "panicked"}
cache == Unwrap(cMetadata).cached_storage_hashes
Computed(key) == IF key \in DOMAIN cComputed THEN cComputed[key] ELSE << >>

\* get_or_insert(pallet, item, f) is entered
Enter(t, kind, pallet, item, key, f) ==
    /\ cCalls[t].pc = "idle"
    /\ Started < MaxCalls
    /\ cCalls' = [cCalls EXCEPT ![t] =
                     [pc |-> "lookup", kind |-> kind, pallet |-> pallet,
                      item |-> item, key |-> key, f |-> f, val |-> Ok(ZeroHash),
                      since |-> Len(cLog)]]
    /\ UNCHANGED << cMetadata, cLog, cComputed, metaVars, eventsVars, clientVars, subVars, hashVars, jsonVars >>

\* metadata.storage_hash(pallet, storage)
StorageHash(t, pallet, storage) ==
    Enter(t, "storage_hash", pallet, storage, storage_hash_key(pallet, storage),
          StorageHashClosure(pallet, storage))

\* metadata.inner.cached_storage_hashes.get_or_insert(pallet, item, f)
GetOrInsert(t, pallet, item, f) ==
    Enter(t, "get_or_insert", pallet, item, << pallet, item >>, f)

\* the call of thread t ends with result
Return(t, result, invoked) ==
    /\ cLog' = Append(cLog, [kind |-> cCalls[t].kind, pallet |-> cCalls[t].pallet,
                             item |-> cCalls[t].item, result |-> result,
                             invoked |-> invoked, since |-> cCalls[t].since])
    /\ cCalls' = [cCalls EXCEPT ![t] =
                     IF IsPanic(result) THEN [NoCall EXCEPT !.pc = "panicked"]
                     ELSE NoCall]

\* get_or_insert reads the key: a hit returns what is stored
Lookup(t) ==
    /\ cCalls[t].pc = "lookup"
    /\ IF cCalls[t].key \in DOMAIN cache
       THEN Return(t, cache[cCalls[t].key], FALSE)
       ELSE /\ cCalls' = [cCalls EXCEPT ![t].pc = "compute"]
            /\ UNCHANGED cLog
    /\ UNCHANGED << cMetadata, cComputed, metaVars, eventsVars, clientVars, subVars, hashVars, jsonVars >>

\* get_or_insert calls the closure
Compute(t) ==
    /\ cCalls[t].pc = "compute"
    /\ LET r == CallClosure(Unwrap(cMetadata), cCalls[t].f)
       IN  /\ cComputed' = MapInsert(cComputed, cCalls[t].key,
                                     Append(Computed(cCalls[t].key), r))
           /\ IF IsPanic(r)
              THEN Return(t, r, TRUE)
              ELSE /\ cCalls' = [cCalls EXCEPT ![t].pc = "insert", ![t].val = r]
                   /\ UNCHANGED cLog
    /\ UNCHANGED << cMetadata, metaVars, eventsVars, clientVars, subVars, hashVars, jsonVars >>

\* get_or_insert stores the result and returns it
Insert(t) ==
    /\ cCalls[t].pc = "insert"
    /\ cMetadata' =
          IF cCalls[t].key \in DOMAIN cache THEN cMetadata
          ELSE Some([Unwrap(cMetadata) EXCEPT !.cached_storage_hashes =
                        MapInsert(@, cCalls[t].key, cCalls[t].val)])
    /\ Return(t, cCalls[t].val, TRUE)
    /\ UNCHANGED << cComputed, metaVars, eventsVars, clientVars, subVars, hashVars, jsonVars >>

CacheNext ==
    \/ \E t \in Threads, p \in CachePalletNames, i \in CacheItems :
          StorageHash(t, p, i)
    \/ \E t \in Threads, i \in CacheItems, f \in FixedClosures :
          GetOrInsert(t, "System", i, f)
    \/ \E t \in Threads : Lookup(t) \/ Compute(t) \/ Insert(t)

InitCache == CacheInit /\ MetaIdle /\ EventsIdle /\ ClientInit /\ SubInit /\ HashIdle /\ JsonIdle
\* threads that call at any time
SpecCache == InitCache /\ [][CacheNext]_vars

\* one call at a time: a call is entered when no call is in progress
CacheSeqNext ==
    \/ \E t \in Threads, p \in CachePalletNames, i \in CacheItems :
          Quiet /\ StorageHash(t, p, i)
    \/ \E t \in Threads, p \in CachePalletNames, i \in CacheItems,
          f \in FixedClosures : Quiet /\ GetOrInsert(t, p, i, f)
    \/ \E t \in Threads : Lookup(t) \/ Compute(t) \/ Insert(t)

SpecCacheSeq == InitCache /\ [][CacheSeqNext]_vars

(***************************************************************************)
(* Constructing an OnlineClient and reading it.  The two fetches of        *)
(* from_rpc_client are joined: they complete in either order and the       *)
(* function returns when both have.  No function of the sources writes     *)
(* the cell of a client; Refresh follows the description of a refresh, one *)
(* write that replaces the whole Inner.                                    *)
(***************************************************************************)
\* rpc.runtime_version(None) completes
RuntimeVersionFetched(response) ==
    /\ kRuntimeVersion = None
    /\ kRuntimeVersion' = Some(Rpc_runtime_version(response))
    /\ kArrived' = Append(kArrived, "runtime_version")
    /\ UNCHANGED << kMetadata, kClient, kInner, kInstalled, kReads,
                    metaVars, eventsVars, cacheVars, subVars, hashVars, jsonVars >>

\* rpc.metadata() completes
MetadataFetched(response) ==
    /\ kMetadata = None
    /\ kMetadata' = Some(Rpc_metadata(response))
    /\ kArrived' = Append(kArrived, "metadata")
    /\ UNCHANGED << kRuntimeVersion, kClient, kInner, kInstalled, kReads,
                    metaVars, eventsVars, cacheVars, subVars, hashVars, jsonVars >>

\* the join is complete: from_rpc_client returns
FromRpcClient ==
    /\ kClient = None /\ kRuntimeVersion # None /\ kMetadata # None
    /\ LET client == from_rpc_client(Unwrap(kRuntimeVersion), Unwrap(kMetadata))
       IN  /\ kClient' = Some(client)
           /\ kInner' = IF IsOk(client) THEN Some(client[2]) ELSE None
           /\ kInstalled' = IF IsOk(client) THEN << client[2] >> ELSE << >>
    /\ UNCHANGED << kRuntimeVersion, kMetadata, kArrived, kReads,
                    metaVars, eventsVars, cacheVars, subVars, hashVars, jsonVars >>

\* a refresh after a runtime upgrade: the cell gets the Inner of the node's
\* next generation in one write
Refresh ==
    /\ kInner # None
    /\ Len(kInstalled) < MaxGen
    /\ LET g == Len(kInstalled) + 1
           inner == Inner(NodeRuntimeVersion(g), try_from(NodeMetadata(g))[2])
       IN  /\ kInner' = Some(inner)
           /\ kInstalled' = Append(kInstalled, inner)
    /\ UNCHANGED << kRuntimeVersion, kMetadata, kArrived, kClient, kReads,
                    metaVars, eventsVars, cacheVars, subVars, hashVars, jsonVars >>

\* client.metadata() by reader r
ReadMetadata(r) ==
    /\ kInner # None
    /\ kReads[r].metadata = None
    /\ kReads' = [kReads EXCEPT ![r].metadata =
                     Some(OnlineClient_metadata(Unwrap(kInner)))]
    /\ UNCHANGED << kRuntimeVersion, kMetadata, kArrived, kClient, kInner, kInstalled,
                    metaVars, eventsVars, cacheVars, subVars, hashVars, jsonVars >>

\* client.runtime_version() by reader r
ReadRuntimeVersion(r) ==
    /\ kInner # None
    /\ kReads[r].runtime_version = None
    /\ kReads' = [kReads EXCEPT ![r].runtime_version =
                     Some(OnlineClient_runtime_version(Unwrap(kInner)))]
    /\ UNCHANGED << kRuntimeVersion, kMetadata, kArrived, kClient, kInner, kInstalled,
                    metaVars, eventsVars, cacheVars, subVars, hashVars, jsonVars >>

ClientNext ==
    \/ \E response \in RuntimeVersionResponses : RuntimeVersionFetched(response)
    \/ \E response \in MetadataResponses : MetadataFetched(response)
    \/ FromRpcClient
    \/ Refresh
    \/ \E r \in Readers : ReadMetadata(r) \/ ReadRuntimeVersion(r)

InitClient == ClientInit /\ MetaIdle /\ EventsIdle /\ CacheIdle /\ SubInit /\ HashIdle /\ JsonIdle
SpecClient == InitClient /\ [][ClientNext]_vars

(***************************************************************************)
(* Subscriptions.  A handle that its consumer ends, by cancelling or by    *)
(* dropping it, queues the unsubscribe call with the unsubscribe method it *)
(* was made with; the transport sends what is queued; the node ends a      *)
(* subscription on the unsubscribe method that belongs to the method that  *)
(* made it.                                                                *)
(***************************************************************************)
\* rpc.subscribe_blocks() returns a Subscription
SubscribeBlocks(s) ==
    /\ sSubs[s].state = "none"
    /\ sSubs' = [sSubs EXCEPT ![s] =
                    [state |-> "active", sub |-> subscribe_blocks.sub,
                     unsub |-> subscribe_blocks.unsub, headers |-> 0]]
    /\ sServer' = MapInsert(sServer, s, subscribe_blocks.sub)
    /\ UNCHANGED << sWire, metaVars, eventsVars, cacheVars, clientVars, hashVars, jsonVars >>

\* rpc.subscribe_blocks() returns the error of the transport
SubscribeBlocksFails(s) ==
    /\ sSubs[s].state = "none"
    /\ sSubs' = [sSubs EXCEPT ![s].state = "failed"]
    /\ UNCHANGED << sServer, sWire, metaVars, eventsVars, cacheVars, clientVars, hashVars, jsonVars >>

\* subscription.next(): the node pushed a header
NextHeader(s) ==
    /\ sSubs[s].state = "active" /\ s \in DOMAIN sServer
    /\ sSubs[s].headers < MaxHeaders
    /\ sSubs' = [sSubs EXCEPT ![s].headers = @ + 1]
    /\ UNCHANGED << sServer, sWire, metaVars, eventsVars, cacheVars, clientVars, hashVars, jsonVars >>

\* the consumer ends the subscription: how is "cancelled" or "dropped"
End(s, how) ==
    /\ sSubs[s].state = "active"
    /\ sSubs' = [sSubs EXCEPT ![s].state = how]
    /\ sWire' = sWire \cup { [id |-> s, method |-> sSubs[s].unsub] }
    /\ UNCHANGED << sServer, metaVars, eventsVars, cacheVars, clientVars, hashVars, jsonVars >>

\* the transport sends a queued unsubscribe call and the node handles it
Unsubscribe(call) ==
    /\ call \in sWire
    /\ sWire' = sWire \ {call}
    /\ sServer' =
          IF call.id \in DOMAIN sServer
             /\ call.method = UnsubscribeOf(sServer[call.id])
          THEN [id \in DOMAIN sServer \ {call.id} |-> sServer[id]]
          ELSE sServer
    /\ UNCHANGED << sSubs, metaVars, eventsVars, cacheVars, clientVars, hashVars, jsonVars >>

Send == \E call \in sWire : Unsubscribe(call)

SubNext ==
    \/ \E s \in Subs : SubscribeBlocks(s) \/ SubscribeBlocksFails(s)
    \/ \E s \in Subs : NextHeader(s)
    \/ \E s \in Subs, how \in {"cancelled", "dropped"} : End(s, how)
    \/ Send

InitSub == SubInit /\ MetaIdle /\ EventsIdle /\ CacheIdle /\ ClientInit /\ HashIdle /\ JsonIdle
\* the transport sends every call that stays queued
SpecSub == InitSub /\ [][SubNext]_vars /\ WF_vars(Send)

(***************************************************************************)
(* Claims about parsing (SpecMeta).                                        *)
(***************************************************************************)
HeaderOk(m) == m.prefix = META_RESERVED /\ m.version = V14

\* the pallets of m whose event type does not resolve to a variant type
Offending(m) ==
    { i \in 1..Len(m.payload.pallets) :
        /\ m.payload.pallets[i].event # None
        /\ LET id == Unwrap(m.payload.pallets[i].event)
           IN  \/ id \notin DOMAIN m.payload.types
               \/ m.payload.types[id].kind # "Variant" }

\* the declarations of m: << i, j >> for variant j of the event type of
\* pallet i
Declared(m) ==
    UNION { { << i, j >> :
                j \in 1..Len(m.payload.types[Unwrap(m.payload.pallets[i].event)].variants) } :
            i \in { k \in 1..Len(m.payload.pallets) :
                      /\ m.payload.pallets[k].event # None
                      /\ k \notin Offending(m) } }
DeclVariant(m, d) ==
    m.payload.types[Unwrap(m.payload.pallets[d[1]].event)].variants[d[2]]
DeclKey(m, d) == << m.payload.pallets[d[1]].index, DeclVariant(m, d).index >>
\* the EventMetadata that declaration d describes
DeclEvent(m, d) ==
    [pallet |-> m.payload.pallets[d[1]].name,
     event |-> DeclVariant(m, d).name,
     fields |-> [k \in 1..Len(DeclVariant(m, d).fields) |->
                    << DeclVariant(m, d).fields[k].name,
                       DeclVariant(m, d).fields[k].ty >>],
     docs |-> DeclVariant(m, d).docs]
Later(d, e) == e[1] > d[1] \/ (e[1] = d[1] /\ e[2] > d[2])
\* d is the last declaration of its (pallet index, variant index)
LastOfKey(m, d) ==
    \A e \in Declared(m) : DeclKey(m, e) = DeclKey(m, d) => ~Later(d, e)

\* C8: a metadata whose prefix is not the reserved magic parses to
\* InvalidPrefix whatever its version, one with the magic and a version other
\* than V14 to InvalidVersion; try_from always returns a Result, and no
\* Metadata in these cases.
C8_BadHeaderRejected ==
    mResult # None =>
        /\ Unwrap(mResult)[1] \in {"Ok", "Err"}
        /\ Unwrap(mInput).prefix # META_RESERVED
              => Unwrap(mResult) = Err(InvalidPrefix)
        /\ (Unwrap(mInput).prefix = META_RESERVED /\ Unwrap(mInput).version # V14)
              => Unwrap(mResult) = Err(InvalidVersion)

\* a metadata with a wrong prefix and an unsupported version was parsed
C8_Witness ==
    /\ mResult = Some(Err(InvalidPrefix))
    /\ Unwrap(mInput).version # V14
    /\ Len(Unwrap(mInput).payload.pallets) > 0

\* C9 as stated: every metadata with the magic prefix and version V14 parses,
\* and the event of every declared variant is found under its
\* (pallet index, variant index) with that pallet's name, that variant's name
\* and its fields in order.
C9_AsStated ==
    (mResult # None /\ HeaderOk(Unwrap(mInput))) =>
        /\ IsOk(Unwrap(mResult))
        /\ \A d \in Declared(Unwrap(mInput)) :
              Metadata_event(Unwrap(mResult)[2], DeclKey(Unwrap(mInput), d)[1],
                             DeclKey(Unwrap(mInput), d)[2])
                = Ok(DeclEvent(Unwrap(mInput), d))

\* C9, amended: a metadata with the magic prefix and version V14 whose every
\* declared event type resolves to a variant type parses, and the event found
\* under a declared (pallet index, variant index) is the one of the last
\* declaration of that pair, in pallet order and then variant order: its
\* pallet's name, its variant's name, its fields in order.  A lookup made on
\* the parsed Metadata returns the same.
C9_EventsResolvable ==
    (mResult # None /\ HeaderOk(Unwrap(mInput)) /\ Offending(Unwrap(mInput)) = {}) =>
        /\ IsOk(Unwrap(mResult))
        /\ \A d \in Declared(Unwrap(mInput)) :
              LastOfKey(Unwrap(mInput), d) =>
                  /\ Metadata_event(Unwrap(mResult)[2],
                                    DeclKey(Unwrap(mInput), d)[1],
                                    DeclKey(Unwrap(mInput), d)[2])
                       = Ok(DeclEvent(Unwrap(mInput), d))
                  /\ (mLookup # None /\ Unwrap(mLookup)[1] = DeclKey(Unwrap(mInput), d)[1]
                                     /\ Unwrap(mLookup)[2] = DeclKey(Unwrap(mInput), d)[2])
                       => Unwrap(mLookup)[3] = Ok(DeclEvent(Unwrap(mInput), d))

\* an event was looked up in a metadata in which two pallets share an index
\* and two variants of a pallet share an index
C9_Witness ==
    /\ mLookup # None /\ IsOk(Unwrap(mLookup)[3])
    /\ Len(Unwrap(mInput).payload.pallets) = 2
    /\ Unwrap(mInput).payload.pallets[1].index = Unwrap(mInput).payload.pallets[2].index
    /\ Unwrap(mInput).payload.pallets[1].name # Unwrap(mInput).payload.pallets[2].name
    /\ Unwrap(mInput).payload.pallets[1].event = Some(2)
    /\ Unwrap(mInput).payload.pallets[2].event = Some(2)

\* C10: with the magic prefix and version V14, try_from returns Ok exactly
\* when no pallet's event type is missing or not a variant, and then the keys
\* of the events are those of the pallets that have an event type; otherwise
\* it returns no Metadata but the error of the first such pallet in order,
\* MissingType(id) for an id missing from the registry and
\* TypeDefNotVariant(id) for one that is no variant, also when earlier
\* pallets were indexed.
C10_NeverPartial ==
    (mResult # None /\ HeaderOk(Unwrap(mInput))) =>
        IF Offending(Unwrap(mInput)) = {}
        THEN /\ IsOk(Unwrap(mResult))
             /\ DOMAIN Unwrap(mResult)[2].events
                  = { DeclKey(Unwrap(mInput), d) : d \in Declared(Unwrap(mInput)) }
             /\ Unwrap(mResult)[2].metadata = Unwrap(mInput).payload
        ELSE \E i \in Offending(Unwrap(mInput)) :
                /\ \A j \in Offending(Unwrap(mInput)) : i <= j
                /\ Unwrap(mResult) =
                      IF Unwrap(Unwrap(mInput).payload.pallets[i].event)
                            \notin DOMAIN Unwrap(mInput).payload.types
                      THEN Err(MissingType(Unwrap(Unwrap(mInput).payload.pallets[i].event)))
                      ELSE Err(TypeDefNotVariant(Unwrap(Unwrap(mInput).payload.pallets[i].event)))

\* parsing failed on the second pallet after the first was indexed
C10_Witness ==
    /\ mResult = Some(Err(MissingType(7)))
    /\ Len(Unwrap(mInput).payload.pallets) = 2
    /\ Unwrap(mInput).payload.pallets[1].event = Some(1)
    /\ Unwrap(mInput).payload.pallets[2].event = Some(7)

(***************************************************************************)
(* Claims about the iteration of a block's events (SpecEvents).            *)
(***************************************************************************)
\* the items yielded so far are those of the block's first events, one per
\* event: the names of a resolved event, EventNotFound of an unresolved one;
\* and a next item can be taken while the block has more and the consumer
\* still polls
C5_Items ==
    /\ Len(eYielded) = ePos
    /\ ePos <= Len(eBlock)
    /\ \A i \in 1..Len(eYielded) :
          IF << eBlock[i].pallet_index, eBlock[i].variant_index >>
                \in DOMAIN Unwrap(eMetadata).events
          THEN eYielded[i] =
                 Ok([pallet_name |->
                        Unwrap(eMetadata).events[<< eBlock[i].pallet_index,
                                                    eBlock[i].variant_index >>].pallet,
                     variant_name |->
                        Unwrap(eMetadata).events[<< eBlock[i].pallet_index,
                                                    eBlock[i].variant_index >>].event])
          ELSE eYielded[i] =
                 Err(<< "EventNotFound", eBlock[i].pallet_index,
                        eBlock[i].variant_index >>)
    /\ (ePos < Len(eBlock) /\ eConsumer = "polling") => ENABLED IterNext

\* a step that yields an error item changes neither the Metadata nor the block
C5_Frame ==
    (ePos' = ePos + 1 /\ IsErr(eYielded'[ePos'])) =>
        (eMetadata' = eMetadata /\ eBlock' = eBlock /\ metaVars' = metaVars)

SameKey(i, j) == cLog[i].pallet = cLog[j].pallet /\ cLog[i].item = cLog[j].item
Before(i, j) == i <= cLog[j].since
Ended == 1..Len(cLog)
Range(seq) == { seq[n] : n \in 1..Len(seq) }

\* C1 (as stated): Calls made one after the other: once a call for a key
\* returned a result, every later call for that key returns an equal result
\* and does not invoke its closure, and the closures of one key are invoked at
\* most once in all.
C1_ComputeAtMostOnce ==
    /\ \A i \in Ended, j \in Ended :
          (Before(i, j) /\ SameKey(i, j) /\ ~IsPanic(cLog[i].result))
             => (cLog[j].result = cLog[i].result /\ ~cLog[j].invoked)
    /\ \A key \in DOMAIN cComputed : Len(cComputed[key]) <= 1

\* C6 (as stated): Calls made at any time by several threads: the value
\* stored for a key is one of the results computed for that key, every call
\* that ended returned a result (a hash or an error) computed for its key, and
\* a call entered after a call for its key returned returns the stored value.
C6_ConcurrentCallsValid ==
    /\ \A key \in DOMAIN cache : cache[key] \in Range(Computed(key))
    /\ \A j \in Ended :
          /\ ~IsPanic(cLog[j].result)
          /\ cLog[j].result \in Range(Computed(<< cLog[j].pallet, cLog[j].item >>))
    /\ \A i \in Ended, j \in Ended :
          (Before(i, j) /\ SameKey(i, j) /\ ~IsPanic(cLog[i].result))
             => (/\ << cLog[j].pallet, cLog[j].item >> \in DOMAIN cache
                 /\ cLog[j].result = cache[<< cLog[j].pallet, cLog[j].item >>])

C2_AllOrNothing ==
    kClient # None =>
        LET client == Unwrap(kClient)
            runtime_version == Unwrap(kRuntimeVersion)
            metadata == Unwrap(kMetadata)
        IN  /\ IsOk(client) <=> (IsOk(runtime_version) /\ IsOk(metadata))
            /\ IsOk(client) =>
                  /\ client[2].runtime_version = runtime_version[2]
                  /\ client[2].metadata = metadata[2]
                  /\ kInner # None
            /\ IsErr(client) =>
                  /\ client \in { r \in {runtime_version, metadata} : IsErr(r) }
                  /\ kInner = None /\ kInstalled = << >>

\* C2 witness: the runtime version was fetched, the metadata was not valid,
\* and from_rpc_client returned the InvalidMetadata error
C2_Witness ==
    /\ kClient # None /\ IsErr(Unwrap(kClient))
    /\ IsOk(Unwrap(kRuntimeVersion))
    /\ Unwrap(kClient) = Err(Error_InvalidMetadata(InvalidVersion))
    /\ kInner = None

EndedByConsumer(s) == sSubs[s].state \in {"cancelled", "dropped"}

StorageHashCalls ==
    { i \in Ended :
        /\ cLog[i].kind = "storage_hash"
        /\ \A j \in Ended : SameKey(i, j) => cLog[j].kind = "storage_hash" }
\* the pallets of the cached Metadata, and the position in them of the first
\* pallet of a name (0 for none)
CachedPallets == Unwrap(cMetadata).metadata.pallets
PalletAt(name) == Find(CachedPallets, name)
HasEntry(pallet, item) ==
    /\ PalletAt(pallet) # 0
    /\ CachedPallets[PalletAt(pallet)].storage # None
    /\ Find(Unwrap(CachedPallets[PalletAt(pallet)].storage).entries, item) # 0

\* C11 (as stated): storage_hash returns PalletNotFound when no pallet has the
\* name, StorageNotFound when the pallet has no storage or no entry of the
\* name, and for an existing entry a hash, the same one on every call.
C11_StorageHashResults ==
    \A i \in StorageHashCalls :
        /\ PalletAt(cLog[i].pallet) = 0 => cLog[i].result = Err(PalletNotFound)
        /\ (PalletAt(cLog[i].pallet) # 0 /\ ~HasEntry(cLog[i].pallet, cLog[i].item))
              => cLog[i].result = Err(StorageNotFound)
        /\ HasEntry(cLog[i].pallet, cLog[i].item)
              => /\ IsOk(cLog[i].result)
                 /\ \A j \in StorageHashCalls :
                       SameKey(i, j) => cLog[j].result = cLog[i].result

\* C15 (as stated): Every call of storage_hash on a parsed Metadata returns
\* Ok(hash) or a MetadataError; none panics.
C15_NeverPanics ==
    \A i \in Ended :
        cLog[i].kind = "storage_hash"
           => \/ IsOk(cLog[i].result)
              \/ cLog[i].result \in {Err(PalletNotFound), Err(StorageNotFound)}

(***************************************************************************)
(* Claims about the two fetches of from_rpc_client (SpecClient).           *)
(***************************************************************************)
\* C17: from_rpc_client returns only when both fetches have completed, in
\* whichever order; it returns the error of the runtime version fetch when
\* that failed (also when both failed), else the error of the metadata
\* fetch, else a client.
C17_JoinThenRuntimeVersionFirst ==
    kClient # None =>
        /\ Len(kArrived) = 2 /\ kRuntimeVersion # None /\ kMetadata # None
        /\ IsErr(Unwrap(kRuntimeVersion)) => Unwrap(kClient) = Unwrap(kRuntimeVersion)
        /\ (IsOk(Unwrap(kRuntimeVersion)) /\ IsErr(Unwrap(kMetadata)))
              => Unwrap(kClient) = Unwrap(kMetadata)
        /\ (IsOk(Unwrap(kRuntimeVersion)) /\ IsOk(Unwrap(kMetadata)))
              => IsOk(Unwrap(kClient))

\* C17 witness: the metadata fetch failed first, the runtime version fetch
\* failed second with another error, and that second error was returned
C17_Witness ==
    /\ kArrived = << "metadata", "runtime_version" >>
    /\ kMetadata = Some(Err(Error_Codec))
    /\ kRuntimeVersion = Some(Err(Error_Serialization))
    /\ kClient = Some(Err(Error_Serialization))

(***************************************************************************)
(* Hashing the types of a registry and the entries of a storage.  The      *)
(* registries give every type id 0..MaxTypes-1 a definition of one of the  *)
(* kinds, with ids of the registry as parameters: types that refer to      *)
(* themselves, to one another and to one type twice are among them.        *)
(***************************************************************************)
TypeIds == 0..(MaxTypes - 1)
TypeDefs ==
    { TyPrimitive(PrimU8), TyPrimitive(PrimU32) }
    \cup { TySequence(j) : j \in TypeIds }
    \cup { TyCompact(j) : j \in TypeIds }
    \cup { TyArray(2, j) : j \in TypeIds }
    \cup { TyTuple(<< j, k >>) : j \in TypeIds, k \in TypeIds }
    \cup { TyComposite(<< Field(Some("a"), j), Field(Some("b"), k) >>) :
             j \in TypeIds, k \in TypeIds }
    \cup { TyVariant(<< Variant("A", 0, << Field(None, j) >>, << >>),
                        Variant("B", 1, << Field(Some("x"), k) >>, << >>) >>) :
             j \in TypeIds, k \in TypeIds }
    \cup { TyBitSequence(j, k) : j \in TypeIds, k \in TypeIds }
Registries == [TypeIds -> TypeDefs]

\* storage entries of one name over the types 0 (u32) and 5 (u8) of Registry
HashEntries ==
    { StorageEntry("Item", m, ty, d) :
        m \in {Optional, Default}, d \in {<< 0 >>, << 1 >>},
        ty \in {Plain(0)}
               \cup { StorageMap(hs, kv[1], kv[2]) :
                        hs \in {<< Blake2_128Concat >>,
                                << Blake2_128Concat, Twox64Concat >>,
                                << Twox64Concat, Blake2_128Concat >>},
                        kv \in {<< 0, 5 >>, << 5, 0 >>, << 0, 0 >>} } }

HashInit ==
    /\ \/ hRegistry \in Registries /\ hId \in TypeIds /\ hEntry = None
       \/ hRegistry = Registry /\ hId = 0
          /\ hEntry \in { Some(e) : e \in HashEntries }
    /\ hOut = None /\ hEntryOut = None

\* get_type_hash(registry, id, &mut HashSet::new())
TypeHash ==
    /\ hEntry = None /\ hOut = None
    /\ hOut' = Some(get_type_hash(hRegistry, hId, NewVisited))
    /\ UNCHANGED << hRegistry, hId, hEntry, hEntryOut, metaVars, eventsVars,
                    cacheVars, clientVars, subVars, jsonVars >>

\* get_storage_entry_hash(registry, entry, &mut HashSet::new())
StorageEntryHash ==
    /\ hEntry # None /\ hEntryOut = None
    /\ hEntryOut' = Some(get_storage_entry_hash(hRegistry, Unwrap(hEntry),
                                                NewVisited))
    /\ UNCHANGED << hRegistry, hId, hOut, hEntry, metaVars, eventsVars,
                    cacheVars, clientVars, subVars, jsonVars >>

HashNext == TypeHash \/ StorageEntryHash

InitHash ==
    HashInit /\ MetaIdle /\ EventsIdle /\ CacheIdle /\ ClientInit /\ SubInit /\ JsonIdle
SpecHash == InitHash /\ [][HashNext]_vars

(***************************************************************************)
(* Claims about hashing (SpecHash).                                        *)
(***************************************************************************)
\* the type ids a definition refers to, in the order of its parts
RefsOf(ty_def) ==
    CASE ty_def.kind = "Composite" ->
            [n \in 1..Len(ty_def.fields) |-> ty_def.fields[n].ty]
      [] ty_def.kind = "Variant" ->
            [n \in 1..Len(ty_def.variants) |-> ty_def.variants[n].fields[1].ty]
      [] ty_def.kind = "Tuple" -> ty_def.types
      [] ty_def.kind = "BitSequence" -> << ty_def.order, ty_def.store >>
      [] ty_def.kind = "Primitive" -> << >>
      [] OTHER -> << ty_def.param >>
RefSet(registry, id) == { RefsOf(registry[id])[n] : n \in 1..Len(RefsOf(registry[id])) }
\* the ids reached from the ids of S by one or more references
RECURSIVE ReachedFrom(_, _, _)
ReachedFrom(registry, S, found) ==
    LET next == UNION { RefSet(registry, i) : i \in S } \ found
    IN  IF next = {} THEN found
        ELSE ReachedFrom(registry, next, found \cup next)
Below(registry, id) == ReachedFrom(registry, {id}, {})
\* no type at or below id refers to itself, directly or through others
Acyclic(registry, id) ==
    \A i \in Below(registry, id) \cup {id} : i \notin Below(registry, i)

HashDone == hEntry = None /\ hOut # None
TypeHashOf(registry, id) == get_type_hash(registry, id, NewVisited)[1]

\* C12: get_type_hash returns for every registry, also for a type that
\* refers to itself, and one top-level computation goes into each type id at
\* most once: no id is entered twice, and every entered id was visited.
C12_EachTypeEnteredOnce ==
    HashDone =>
        LET st == Unwrap(hOut)[2]
        IN  /\ \A m \in 1..Len(st.entered), n \in 1..Len(st.entered) :
                  st.entered[m] = st.entered[n] => m = n
            /\ { st.entered[n] : n \in 1..Len(st.entered) } = st.visited
            /\ st.visited \subseteq {hId} \cup Below(hRegistry, hId)
            /\ ~st.panic

\* C12 witness: the hash of a type that refers to itself through another
\* type was computed, with the fixed hash in place of the second visit
C12_Witness ==
    /\ HashDone
    /\ hId \in Below(hRegistry, hId) /\ hId \notin RefSet(hRegistry, hId)
    /\ Unwrap(hOut)[2].fixed = {hId}
    /\ Len(Unwrap(hOut)[2].entered) = MaxTypes

\* ty_def with every type id j it refers to replaced by f[j]
Relabel(ty_def, f) ==
    CASE ty_def.kind = "Composite" ->
            TyComposite([n \in 1..Len(ty_def.fields) |->
                           [ty_def.fields[n] EXCEPT !.ty = f[@]]])
      [] ty_def.kind = "Variant" ->
            TyVariant([n \in 1..Len(ty_def.variants) |->
                         [ty_def.variants[n] EXCEPT
                            !.fields = [m \in 1..Len(@) |-> [@[m] EXCEPT !.ty = f[@]]]]])
      [] ty_def.kind = "Tuple" ->
            TyTuple([n \in 1..Len(ty_def.types) |-> f[ty_def.types[n]]])
      [] ty_def.kind = "BitSequence" ->
            TyBitSequence(f[ty_def.order], f[ty_def.store])
      [] ty_def.kind = "Primitive" -> ty_def
      [] OTHER -> [ty_def EXCEPT !.param = f[@]]
\* the registry with type id j renumbered to f[j]
Renumber(registry, f) ==
    [i \in { f[j] : j \in DOMAIN registry } |->
        Relabel(registry[CHOOSE j \in DOMAIN registry : f[j] = i], f)]
\* the type of an id without its ids: every reference replaced by the type
\* referred to (of types that do not refer to themselves)
RECURSIVE Shape(_, _)
Shape(registry, id) ==
    Relabel(registry[id], [j \in RefSet(registry, id) |-> Shape(registry, j)])
\* ty_def with its n-th reference replaced by the id new
SetRef(ty_def, n, new) ==
    CASE ty_def.kind = "Composite" -> [ty_def EXCEPT !.fields[n].ty = new]
      [] ty_def.kind = "Variant" -> [ty_def EXCEPT !.variants[n].fields[1].ty = new]
      [] ty_def.kind = "Tuple" -> [ty_def EXCEPT !.types[n] = new]
      [] ty_def.kind = "BitSequence" ->
            IF n = 1 THEN [ty_def EXCEPT !.order = new]
            ELSE [ty_def EXCEPT !.store = new]
      [] OTHER -> [ty_def EXCEPT !.param = new]
\* a type that refers to one type id in two places
TwoUses(ty_def) ==
    Len(RefsOf(ty_def)) = 2 /\ RefsOf(ty_def)[1] = RefsOf(ty_def)[2]
\* the registry in which the second of the two places has an id of its own,
\* with the definition of the first
Split(registry, id) ==
    (MaxTypes :> registry[RefsOf(registry[id])[2]])
        @@ [registry EXCEPT ![id] = SetRef(@, 2, MaxTypes)]
\* the registry with the types kind<id>, kind<kind<id>>, ... added under the
\* ids MaxTypes, MaxTypes + 1, ...
Wrap(kind, param) ==
    IF kind = "Sequence" THEN TySequence(param) ELSE TyCompact(param)
Nested(registry, id, kind) ==
    [i \in MaxTypes..(MaxTypes + MaxDepth - 1) |->
        Wrap(kind, IF i = MaxTypes THEN id ELSE i - 1)] @@ registry
NestedId(id, depth) == IF depth = 0 THEN id ELSE MaxTypes + depth - 1

\* C20: in a type graph without cycles the fixed hash is never used: the
\* computation of a type that refers to itself nowhere, and of a storage
\* entry over such types, replaces no type id by the fixed hash, and a tuple
\* of two members hashes both by their own type hash, also when the two
\* members have one type id.
C20_SentinelOnlyForCycles ==
    /\ (HashDone /\ Acyclic(hRegistry, hId)) =>
          /\ Unwrap(hOut)[2].fixed = {}
          /\ hRegistry[hId].kind = "Tuple" =>
                Unwrap(hOut)[1] =
                    hash_hashes(
                        hash_hashes(hash(Bytes(<< Tuple >>)),
                                    TypeHashOf(hRegistry, hRegistry[hId].types[1])),
                        TypeHashOf(hRegistry, hRegistry[hId].types[2]))
    /\ hEntryOut # None => Unwrap(hEntryOut)[2].fixed = {}

\* C13: the type hash does not depend on the numbering of the types: under
\* every renumbering of the registry the renumbered type has the same hash,
\* and a type that uses one type id in two places has the same hash as the
\* same type with a second id, of the same definition, in the second place.
C13_SameHashForSameStructure ==
    HashDone =>
        /\ \A f \in Permutations(TypeIds) :
              TypeHashOf(Renumber(hRegistry, f), f[hId]) = Unwrap(hOut)[1]
        /\ (Acyclic(hRegistry, hId) /\ TwoUses(hRegistry[hId])) =>
              /\ Shape(Split(hRegistry, hId), hId) = Shape(hRegistry, hId)
              /\ TypeHashOf(Split(hRegistry, hId), hId) = Unwrap(hOut)[1]

\* C18: for a type X that does not refer to itself, X, Sequence<X>,
\* Sequence<Sequence<X>>, ... up to depth MaxDepth have pairwise different
\* hashes, and likewise with Compact.
C18_NestingDoesNotCancel ==
    (HashDone /\ Acyclic(hRegistry, hId)) =>
        \A kind \in {"Sequence", "Compact"} :
            \A d1 \in 0..MaxDepth, d2 \in 0..MaxDepth :
                d1 # d2 =>
                    TypeHashOf(Nested(hRegistry, hId, kind), NestedId(hId, d1))
                        # TypeHashOf(Nested(hRegistry, hId, kind), NestedId(hId, d2))

\* the hashed type with its definition replaced
WithRoot(registry, ty_def) == [registry EXCEPT ![hId] = ty_def]
RenameField(ty_def) ==
    IF ty_def.kind = "Composite"
    THEN [ty_def EXCEPT !.fields[1].name = Some("c")]
    ELSE [ty_def EXCEPT !.variants[2].fields[1].name = Some("y")]
SwapParts(ty_def) ==
    CASE ty_def.kind = "Composite" ->
            [ty_def EXCEPT !.fields = << @[2], @[1] >>]
      [] ty_def.kind = "Variant" ->
            [ty_def EXCEPT !.variants = << @[2], @[1] >>]
      [] ty_def.kind = "Tuple" ->
            [ty_def EXCEPT !.types = << @[2], @[1] >>]
C14_Renamed ==
    hRegistry[hId].kind \in {"Composite", "Variant"} =>
        TypeHashOf(WithRoot(hRegistry, RenameField(hRegistry[hId])), hId)
            # Unwrap(hOut)[1]
C14_Swapped ==
    (/\ hRegistry[hId].kind \in {"Composite", "Variant", "Tuple"}
     /\ Shape(WithRoot(hRegistry, SwapParts(hRegistry[hId])), hId)
            # Shape(hRegistry, hId)) =>
        TypeHashOf(WithRoot(hRegistry, SwapParts(hRegistry[hId])), hId)
            # Unwrap(hOut)[1]
\* the first field gets the type t: a type of the registry or a sequence
\* nested over the field's type
C14_Retyped ==
    hRegistry[hId].kind \in {"Composite", "Variant"} =>
        LET old == RefsOf(hRegistry[hId])[1]
            B == Nested(hRegistry, old, "Sequence")
        IN  \A t \in DOMAIN B :
                LET B2 == [B EXCEPT ![hId] = SetRef(@, 1, t)]
                IN  (Acyclic(B2, hId) /\ Shape(B, t) # Shape(B, old)) =>
                        TypeHashOf(B2, hId) # Unwrap(hOut)[1]
\* C14: for a type that does not refer to itself, renaming a field of a
\* composite or of a variant, swapping two fields, tuple members or variants
\* that are not identical, and giving a field a structurally different type
\* each change the type hash.
C14_HashSensitive ==
    (HashDone /\ Acyclic(hRegistry, hId)) =>
        C14_Renamed /\ C14_Swapped /\ C14_Retyped

\* C19: two storage entries of one name that differ in the modifier, the
\* default bytes, the list of hashers or in which type is the key and which
\* the value have different hashes.
C19_EntryHashSensitive ==
    hEntryOut # None =>
        \A e \in HashEntries :
            e # Unwrap(hEntry) =>
                get_storage_entry_hash(hRegistry, e, NewVisited)[1]
                    # Unwrap(hEntryOut)[1]

(***************************************************************************)
(* RuntimeVersion and JSON.  A JSON text is the list of the members of an  *)
(* object, each a key and the text of its value, and whether the text has  *)
(* white space between its tokens.                                         *)
(***************************************************************************)
JsonText(members, spaced) == [members |-> members, spaced |-> spaced]
\* the sequences that hold every element of S once
Orderings(S) ==
    { q \in [1..Cardinality(S) -> S] : \A m, n \in DOMAIN q : q[m] = q[n] => m = n }
JsonKeys == {"specVersion", "transactionVersion", "foo", "wibble"}
JsonValues(key) ==
    CASE key = "specVersion" -> {"123", "true"}
      [] key = "transactionVersion" -> {"456"}
      [] key = "foo" -> {"true"}
      [] key = "wibble" -> {"[1,2,3]"}
\* objects with some of the keys, each once, in every order
JsonTexts ==
    { JsonText(members, spaced) :
        members \in UNION { { [n \in DOMAIN q |-> << q[n], v[q[n]] >>] :
                                q \in Orderings(K),
                                v \in { f \in [K -> UNION { JsonValues(k) : k \in K }] :
                                          \A k \in K : f[k] \in JsonValues(k) } } :
                            K \in SUBSET JsonKeys },
        spaced \in BOOLEAN }

\* u32 as Deserialize: the number of a JSON number text, None for another value
u32_deserialize(text) ==
    CASE text = "123" -> Some(123)
      [] text = "456" -> Some(456)
      [] OTHER -> None
Member(text, key) ==
    { n \in DOMAIN text.members : text.members[n][1] = key }
\* serde_json::from_str::<RuntimeVersion>: the two renamed fields must be
\* there as numbers; the flattened map takes every other member
from_str(text) ==
    LET named == {"specVersion", "transactionVersion"}
        number(key) ==
            IF Member(text, key) = {} THEN None
            ELSE u32_deserialize(text.members[CHOOSE n \in Member(text, key) : TRUE][2])
        rest == { n \in DOMAIN text.members : text.members[n][1] \notin named }
    IN  IF number("specVersion") = None \/ number("transactionVersion") = None
        THEN Err(Error_Serialization)
        ELSE Ok(RuntimeVersion(
                 Unwrap(number("specVersion")),
                 Unwrap(number("transactionVersion")),
                 [k \in { text.members[n][1] : n \in rest } |->
                     text.members[CHOOSE n \in rest : text.members[n][1] = k][2]]))
\* serde_json::to_string of a RuntimeVersion: the fields in the order of the
\* struct, then the entries of the map in the order its iterator gives them,
\* without white space
to_string(value) ==
    { JsonText(<< << "specVersion", ToString(value.spec_version) >>,
                  << "transactionVersion", ToString(value.transaction_version) >> >>
               \o [n \in DOMAIN q |-> << q[n], value.other[q[n]] >>],
               FALSE) :
        q \in Orderings(DOMAIN value.other) }

JsonInit == jText \in JsonTexts /\ jValue = None /\ jOut = None

Deserialize ==
    /\ jValue = None
    /\ jValue' = Some(from_str(jText))
    /\ UNCHANGED << jText, jOut, metaVars, eventsVars, cacheVars, clientVars,
                    subVars, hashVars >>

Serialize ==
    /\ jValue # None /\ IsOk(Unwrap(jValue)) /\ jOut = None
    /\ \E text \in to_string(Unwrap(jValue)[2]) : jOut' = Some(text)
    /\ UNCHANGED << jText, jValue, metaVars, eventsVars, cacheVars, clientVars,
                    subVars, hashVars >>

JsonNext == Deserialize \/ Serialize

InitJson ==
    JsonInit /\ MetaIdle /\ EventsIdle /\ CacheIdle /\ ClientInit /\ SubInit /\ HashIdle
SpecJson == InitJson /\ [][JsonNext]_vars

\* C16: a JSON object with specVersion and transactionVersion deserializes
\* to a RuntimeVersion with these two numbers whose `other` holds exactly
\* the remaining members, each with its value, and serializing that value
\* gives the JSON text it was read from.
C16_RoundTrip ==
    /\ (/\ jValue # None
        /\ Member(jText, "specVersion") # {}
        /\ Member(jText, "transactionVersion") # {}
        /\ \A n \in DOMAIN jText.members :
              jText.members[n][1] = "specVersion" => jText.members[n][2] = "123") =>
          /\ IsOk(Unwrap(jValue))
          /\ Unwrap(jValue)[2].spec_version = 123
          /\ Unwrap(jValue)[2].transaction_version = 456
          /\ DOMAIN Unwrap(jValue)[2].other =
                { jText.members[n][1] : n \in DOMAIN jText.members }
                    \ {"specVersion", "transactionVersion"}
          /\ \A n \in DOMAIN jText.members :
                jText.members[n][1] \in DOMAIN Unwrap(jValue)[2].other =>
                    Unwrap(jValue)[2].other[jText.members[n][1]] = jText.members[n][2]
    /\ jOut # None => Unwrap(jOut) = jText
====
